---- MODULE Spec2Model ----
(***************************************************************************)
(* A model of libmuscle's Instance (instance.cpp): the constructor, the    *)
(* reuse loop, send / receive dispatch, the F_INIT pre-receive cache, the  *)
(* parallel-universe check and shutdown_; and of the Profiler               *)
(* (profiler.cpp): its event buffer and the batches it submits.            *)
(*                                                                         *)
(* The Communicator and the manager client are collaborators whose code is *)
(* not part of instance.cpp.  They are modelled by their contract: a       *)
(* receive on a connected port returns whatever the peer sent (any         *)
(* payload, with or without settings) and a ClosePort closes the slot it   *)
(* arrives on; a receive on an unconnected port returns the default.       *)
(***************************************************************************)
EXTENDS Integers, Sequences, FiniteSets, TLC

(* ------------------------------ bounds --------------------------------- *)

\* Setting values range over 1..MaxVal (one setting name, "dt").
MaxVal == 1

\* Data payloads are told apart by an id in 1..MaxId.
MaxId == 1

(* ------------------------------ Settings ------------------------------- *)

Keys == {"dt"}
Vals == 1..MaxVal

\* ymmsl::Settings: a mapping from names to values, here a set of
\* <<name, value>> pairs with at most one pair per name.
AllSettings ==
    {s \in SUBSET (Keys \X Vals) :
        \A p \in s : \A q \in s : p[1] = q[1] => p = q}

EmptySettings == {}

\* settings[key] = value for every pair of top, over a copy of under.
Layer(under, top) ==
    top \cup {p \in under : \A q \in top : q[1] # p[1]}

(* ------------------------------ Messages ------------------------------- *)

\* Message: the payload (kind, id for domain data, sval for a Settings
\* payload) and the optional settings (has, set).  Timestamps play no part
\* in the logic of instance.cpp.
Msg(kind, id, sval, has, set) ==
    [kind |-> kind, id |-> id, sval |-> sval, has |-> has, set |-> set]

NoMsg == Msg("none", 0, {}, FALSE, {})

OptSettingsPairs ==
    {<<FALSE, EmptySettings>>} \cup {<<TRUE, s>> : s \in AllSettings}

\* What a peer can put on a data port.
PeerMessages ==
    {Msg("data", i, {}, o[1], o[2]) : i \in 1..MaxId, o \in OptSettingsPairs}
    \cup {Msg("close", 0, {}, o[1], o[2]) : o \in OptSettingsPairs}

\* What a peer can put on muscle_settings_in: a Settings payload (sent with
\* settings attached), a ClosePort, or a payload that is not a Settings.
SettingsInMessages ==
    {Msg("settings", 0, d, TRUE, s) : d \in AllSettings, s \in AllSettings}
    \cup {Msg("close", 0, {}, TRUE, EmptySettings)}
    \cup {Msg("data", 1, {}, TRUE, EmptySettings)}

\* Messages the user passes to send or as a default.
UserMessages ==
    {Msg("data", 1, {}, o[1], o[2]) : o \in OptSettingsPairs}

is_close_port(m) == m.kind = "close"

has_settings(m) == m.has

set_settings(m, s) == [m EXCEPT !.has = TRUE, !.set = s]

unset_settings(m) == [m EXCEPT !.has = FALSE, !.set = EmptySettings]

\* The overlays a message carries: its settings, if it has any.
Carried(m) == IF has_settings(m) THEN {m.set} ELSE {}

(* ------------------------------- Ports --------------------------------- *)

\* The declared ports of the modelled instance: operator, vector or not,
\* and length.
PortTable ==
    [init_in   |-> [oper |-> "F_INIT", vector |-> FALSE, length |-> 0],
     init_vec  |-> [oper |-> "F_INIT", vector |-> TRUE,  length |-> 2],
     s_in      |-> [oper |-> "S",      vector |-> FALSE, length |-> 0],
     state_out |-> [oper |-> "O_F",    vector |-> FALSE, length |-> 0],
     out_vec   |-> [oper |-> "O_I",    vector |-> TRUE,  length |-> 3]]

PortNames == DOMAIN PortTable

UnknownPort == "no_such_port"

SettingsIn == "muscle_settings_in"

NoSlot == -1

port_exists(p) == p \in PortNames

allows_sending(op) == op \in {"O_I", "O_F", "B"}

allows_receiving(op) == op \in {"F_INIT", "S", "B"}

\* The slots of a port: NoSlot for a scalar port, 0..length-1 for a vector.
SlotsOf(p) ==
    IF PortTable[p].vector THEN 0..(PortTable[p].length - 1) ELSE {NoSlot}

\* Reference(port_name) += slot
Ref(p, slot) == <<p, slot>>

\* communicator.list_ports(): the ports of each operator, in declared order.
ListPorts(op) ==
    CASE op = "F_INIT" -> <<"init_in", "init_vec">>
      [] op = "S"      -> <<"s_in">>
      [] op = "O_F"    -> <<"state_out">>
      [] op = "O_I"    -> <<"out_vec">>
      [] OTHER         -> <<>>

Range(seq) == {seq[i] : i \in DOMAIN seq}

\* The ports in the order in which a loop over list_ports() and over the
\* ports of each operator visits them.
PortList ==
    ListPorts("F_INIT") \o ListPorts("O_I") \o ListPorts("S")
        \o ListPorts("O_F")

InPorts == {p \in PortNames : allows_receiving(PortTable[p].oper)}

OutPorts == {p \in PortNames : allows_sending(PortTable[p].oper)}

FInitPorts == Range(ListPorts("F_INIT"))

\* The (port, slot) pairs that exist on the given ports.
SlotKeys(ports) == UNION {{Ref(p, s) : s \in SlotsOf(p)} : p \in ports}

InKeys == SlotKeys(InPorts)

OutKeys == SlotKeys(OutPorts)

CacheKeys == SlotKeys(FInitPorts)

AllKeys == SlotKeys(PortNames)

\* The wirings request_peers can describe: which of the receiving ports and
\* of muscle_settings_in have a conduit attached.
Wired(names) == [p \in InPorts \cup {SettingsIn} |-> p \in names]

Wirings ==
    {Wired({}), Wired({"s_in"}), Wired({SettingsIn}), Wired({"init_in"}),
     Wired({"init_in", SettingsIn}), Wired({"init_vec"}),
     Wired({"init_vec", "s_in"}), Wired({"s_in", SettingsIn})}

Unwired == Wired({})

(* ------------------------------- State --------------------------------- *)

VARIABLES
    pc,              \* where the instance is: constructor step, idle (in user
                     \* code), inside reuse_instance, inside shutdown_, ...
    conn,            \* Port::is_connected / settings_in_connected, per port
    is_open,         \* Port::is_open, per incoming (port, slot)
    overlay,         \* settings_manager_.overlay
    first_run_,
    f_init_cache_,   \* per cache key the cached Message, NoMsg when absent
    is_shut_down_,
    do_reuse,        \* reuse_instance's local
    apply_overlay,   \* reuse_instance's parameter
    todo,            \* pre_receive_f_init_: the receives still to make
    drain,           \* close_incoming_ports_: position of the drain loops
    calls,           \* the manager / communicator calls of the constructor
    n_comm_shutdown, \* number of communicator.shutdown() calls (capped)
    n_deregister,    \* number of manager.deregister_instance() calls (capped)
    closes,          \* per (port, slot): close_port calls (capped)
    last,            \* the operation most recently started, and its result
    hist             \* what happened so far in this reuse iteration / life

\* The Profiler (profiler.cpp).  instance.cpp does not use it yet (its
\* profiling calls are TODOs), so it is a component of its own.
VARIABLES
    enabled_,        \* Profiler::enabled_
    events_,         \* Profiler::events_, the buffer
    submitted,       \* the batches passed to manager_.submit_profile_events
    n_recorded,      \* number of record_event calls so far
    level_calls,     \* number of set_level calls so far
    was_disabled,    \* some set_level call has disabled the profiler
    kept,            \* the events recorded while enabled_, in order
    dropped,         \* the events recorded while not enabled_
    profiler_pc      \* "running", or "shut" after Profiler::shutdown

instance_vars ==
    <<pc, conn, is_open, overlay, first_run_, f_init_cache_, is_shut_down_,
      do_reuse, apply_overlay, todo, drain, calls, n_comm_shutdown,
      n_deregister, closes, last, hist>>

profiler_vars ==
    <<enabled_, events_, submitted, n_recorded, level_calls, was_disabled,
      kept, dropped, profiler_pc>>

vars ==
    <<pc, conn, is_open, overlay, first_run_, f_init_cache_, is_shut_down_,
      do_reuse, apply_overlay, todo, drain, calls, n_comm_shutdown,
      n_deregister, closes, last, hist, enabled_, events_, submitted,
      n_recorded, level_calls, was_disabled, kept, dropped, profiler_pc>>

\* Counters saturate at CountCap so that the model stays finite.
CountCap == 2

Bump(n) == IF n < CountCap THEN n + 1 ELSE n

\* close_incoming_ports_ before its first step: idx is the position in
\* PortList of the port being visited, 0 before the loops start.
NoDrain == [idx |-> 0, slot |-> 0, all_closed |-> TRUE, in_loop |-> FALSE]

NoOp ==
    [op |-> "none", port |-> "", slot |-> NoSlot, has_default |-> FALSE,
     with_settings |-> FALSE, outcome |-> "none", pend |-> "none",
     err |-> "none", arg |-> NoMsg, arg_after |-> NoMsg, sent |-> NoMsg,
     recv |-> NoMsg, ret |-> NoMsg, cached |-> NoMsg,
     shut_before |-> FALSE, open_before |-> FALSE, overlay_before |-> {},
     oper |-> "", connected |-> FALSE, again |-> FALSE,
     settings_close |-> FALSE, pre_close |-> FALSE,
     io |-> {}, sd_calls |-> 0, sd_io |-> {},
     prerecv |-> <<>>, was_stale |-> FALSE, discarded |-> FALSE,
     applied |-> FALSE, default_msg |-> NoMsg,
     cache_before |-> [k \in CacheKeys |-> NoMsg], sd_closed |-> FALSE, sd_unconnected |-> FALSE]

\* The record of an operation that starts now.
Op(name, port, slot) ==
    [NoOp EXCEPT !.op = name, !.port = port, !.slot = slot,
                 !.shut_before = is_shut_down_, !.overlay_before = overlay]

\* The history after an operation failed.
Failed(h) == [h EXCEPT !.error = TRUE]

NoHist ==
    [delivered |-> {}, reuse_calls |-> 0, error |-> FALSE, ended |-> FALSE,
     stale |-> {}, applied |-> FALSE]

Init ==
    /\ pc = "ctor_register"
    /\ conn = Unwired
    /\ is_open = [k \in InKeys |-> TRUE]
    /\ overlay = EmptySettings
    /\ first_run_ = TRUE
    /\ f_init_cache_ = [k \in CacheKeys |-> NoMsg]
    /\ is_shut_down_ = FALSE
    /\ do_reuse = FALSE
    /\ apply_overlay = FALSE
    /\ todo = <<>>
    /\ drain = NoDrain
    /\ calls = <<>>
    /\ n_comm_shutdown = 0
    /\ n_deregister = 0
    /\ closes = [k \in AllKeys |-> 0]
    /\ last = NoOp
    /\ hist = NoHist
    /\ enabled_ = TRUE
    /\ events_ = <<>>
    /\ submitted = <<>>
    /\ n_recorded = 0
    /\ level_calls = 0
    /\ was_disabled = FALSE
    /\ kept = <<>>
    /\ dropped = {}
    /\ profiler_pc = "running"

(* ---------------------------- Construction ----------------------------- *)

\* register_(): manager_.register_instance(...)
register_ ==
    /\ pc = "ctor_register"
    /\ calls' = Append(calls, "register_instance")
    /\ pc' = "ctor_peers"
    /\ UNCHANGED <<conn, is_open, overlay, first_run_, f_init_cache_,
                   is_shut_down_, do_reuse, apply_overlay, todo, drain,
                   n_comm_shutdown, n_deregister, closes, last, hist>>
    /\ UNCHANGED profiler_vars

\* connect_(): manager_.request_peers(...)
connect_request_peers ==
    /\ pc = "ctor_peers"
    /\ calls' = Append(calls, "request_peers")
    /\ pc' = "ctor_connect"
    /\ UNCHANGED <<conn, is_open, overlay, first_run_, f_init_cache_,
                   is_shut_down_, do_reuse, apply_overlay, todo, drain,
                   n_comm_shutdown, n_deregister, closes, last, hist>>
    /\ UNCHANGED profiler_vars

\* connect_(): communicator_.connect(conduits, dims, locations); the conduits
\* decide which ports are connected.
connect_communicator ==
    /\ pc = "ctor_connect"
    /\ calls' = Append(calls, "connect")
    /\ \E w \in Wirings : conn' = w
    /\ pc' = "ctor_settings"
    /\ UNCHANGED <<is_open, overlay, first_run_, f_init_cache_,
                   is_shut_down_, do_reuse, apply_overlay, todo, drain,
                   n_comm_shutdown, n_deregister, closes, last, hist>>
    /\ UNCHANGED profiler_vars

\* connect_(): settings_manager_.base = manager_.get_settings()
connect_get_settings_left_out ==
    /\ pc = "ctor_settings"
    /\ pc' = "idle"
    /\ UNCHANGED <<conn, is_open, overlay, first_run_, f_init_cache_,
                   is_shut_down_, do_reuse, apply_overlay, todo, drain,
                   calls, n_comm_shutdown, n_deregister, closes, last, hist>>
    /\ UNCHANGED profiler_vars

connect_get_settings ==
    /\ pc = "ctor_settings"
    /\ calls' = Append(calls, "get_settings")
    /\ pc' = "idle"
    /\ UNCHANGED <<conn, is_open, overlay, first_run_, f_init_cache_,
                   is_shut_down_, do_reuse, apply_overlay, todo, drain,
                   n_comm_shutdown, n_deregister, closes, last, hist>>
    /\ UNCHANGED profiler_vars

(* ------------------------------ shutdown_ ------------------------------ *)

\* The steps of shutdown_ in program order: close_ports_ (outgoing, then
\* incoming), communicator_.shutdown(), deregister_(), is_shut_down_ = true.
ShutdownSteps_incoming_first ==
    <<"close_incoming", "close_outgoing", "comm_shutdown", "deregister",
      "mark">>

ShutdownSteps ==
    <<"close_outgoing", "close_incoming", "comm_shutdown", "deregister",
      "mark">>

\* Where control is after shutdown_ returned: its callers throw (the user
\* may catch and go on) or exit.
Resume(outcome) == IF outcome = "exit" THEN "exited" ELSE "returned"

\* The step after step `at` of shutdown_, and after the last the caller.
After(at, outcome) ==
    LET i == CHOOSE j \in DOMAIN ShutdownSteps : ShutdownSteps[j] = at
    IN  IF i < Len(ShutdownSteps) THEN ShutdownSteps[i + 1]
        ELSE Resume(outcome)

\* A call of shutdown_() by an operation (recorded in rec) that then ends
\* with `outcome`: the steps run only if the instance is not shut down yet.
shutdown_always(rec, outcome, err) ==
    /\ pc' = ShutdownSteps[1]
    /\ last' = [rec EXCEPT !.outcome = "pending", !.pend = outcome,
                           !.err = err, !.sd_calls = 1]

shutdown_skipped(rec, outcome, err) ==
    /\ pc' = Resume(outcome)
    /\ last' = [rec EXCEPT !.outcome = outcome, !.err = err, !.sd_calls = 1]

shutdown_(rec, outcome, err) ==
    IF ~is_shut_down_
    THEN /\ pc' = ShutdownSteps[1]
         /\ last' = [rec EXCEPT !.outcome = "pending", !.pend = outcome,
                                !.err = err, !.sd_calls = 1]
    ELSE /\ pc' = Resume(outcome)
         /\ last' = [rec EXCEPT !.outcome = outcome, !.err = err,
                                !.sd_calls = 1]

\* close_outgoing_ports_(): the (port, slot) pairs it calls close_port on:
\* every slot of a vector port, and the port itself if it is scalar, for
\* every port whose operator allows sending.
close_outgoing_slots_first_only ==
    {k \in AllKeys : allows_sending(PortTable[k[1]].oper)
                     /\ k[2] \in {NoSlot, 0}}

close_outgoing_slots ==
    {k \in AllKeys : allows_sending(PortTable[k[1]].oper)
                     /\ k[2] \in SlotsOf(k[1])}

close_outgoing_ports_ ==
    /\ pc = "close_outgoing"
    /\ closes' = [k \in AllKeys |->
                    IF k \in close_outgoing_slots
                    THEN Bump(closes[k]) ELSE closes[k]]
    /\ last' = [last EXCEPT !.sd_io = @ \cup {"close_port"}]
    /\ pc' = After(pc, last.pend)
    /\ UNCHANGED <<conn, is_open, overlay, first_run_, f_init_cache_,
                   is_shut_down_, do_reuse, apply_overlay, todo, drain,
                   calls, n_comm_shutdown, n_deregister, hist>>
    /\ UNCHANGED profiler_vars

\* communicator_.receive_message on a connected port: a ClosePort closes
\* the slot it arrives on.
ReceiveOn(open, key, m) ==
    IF is_close_port(m) THEN [open EXCEPT ![key] = FALSE] ELSE open

\* close_incoming_ports_(): the loops over the operators and their ports.
\* Ports that cannot receive or are not connected are passed over; the
\* others are handed to drain_incoming_port_ / drain_incoming_vector_port_.
Drained_unconnected_too(p) == allows_receiving(PortTable[p].oper)

Drained(p) == allows_receiving(PortTable[p].oper) /\ conn[p]

\* The position of the first port from position i on that is drained, and
\* Len(PortList) + 1 if there is none.
RECURSIVE NextDrained(_)
NextDrained(i) ==
    IF i > Len(PortList) THEN i
    ELSE IF Drained(PortList[i]) THEN i
    ELSE NextDrained(i + 1)

close_incoming_ports_ ==
    /\ pc = "close_incoming"
    /\ \/ /\ drain.idx = 0
          /\ drain' = [drain EXCEPT !.idx = NextDrained(1)]
          /\ pc' = pc
       \/ /\ drain.idx > Len(PortList)
          /\ drain' = NoDrain
          /\ pc' = After(pc, last.pend)
    /\ UNCHANGED <<conn, is_open, overlay, first_run_, f_init_cache_,
                   is_shut_down_, do_reuse, apply_overlay, todo, calls,
                   n_comm_shutdown, n_deregister, closes, last, hist>>
    /\ UNCHANGED profiler_vars

\* drain_incoming_port_(port): while (port.is_open()) receive_message(port)
drain_incoming_port_ ==
    /\ pc = "close_incoming"
    /\ drain.idx \in DOMAIN PortList
    /\ LET p == PortList[drain.idx]
           key == Ref(p, NoSlot)
       IN  /\ ~PortTable[p].vector
           /\ IF is_open[key]
              THEN /\ \E m \in PeerMessages :
                        is_open' = ReceiveOn(is_open, key, m)
                   /\ last' = [last EXCEPT
                                 !.sd_io = @ \cup {"receive_message"},
                                 !.sd_closed = @ \/ ~is_open[key],
                                 !.sd_unconnected = @ \/ ~conn[p]]
                   /\ drain' = drain
              ELSE /\ drain' = [drain EXCEPT
                                  !.idx = NextDrained(drain.idx + 1)]
                   /\ UNCHANGED <<is_open, last>>
    /\ UNCHANGED <<pc, conn, overlay, first_run_, f_init_cache_,
                   is_shut_down_, do_reuse, apply_overlay, todo, calls,
                   n_comm_shutdown, n_deregister, closes, hist>>
    /\ UNCHANGED profiler_vars

\* drain_incoming_vector_port_(port): passes over the slots, receiving on
\* each slot that is open, until a pass finds every slot closed.
drain_incoming_vector_port_ ==
    /\ pc = "close_incoming"
    /\ drain.idx \in DOMAIN PortList
    /\ LET p == PortList[drain.idx]
           len == PortTable[p].length
           key == Ref(p, drain.slot)
           done == [drain EXCEPT !.idx = NextDrained(drain.idx + 1),
                                 !.slot = 0, !.all_closed = TRUE,
                                 !.in_loop = FALSE]
       IN  /\ PortTable[p].vector
           /\ \/ /\ ~drain.in_loop
                 /\ IF \A s \in 0..(len - 1) : ~is_open[Ref(p, s)]
                    THEN drain' = done
                    ELSE drain' = [drain EXCEPT !.in_loop = TRUE,
                                                !.all_closed = TRUE,
                                                !.slot = 0]
                 /\ UNCHANGED <<is_open, last>>
              \/ /\ drain.in_loop
                 /\ drain.slot < len
                 /\ IF is_open[key]
                    THEN /\ \E m \in PeerMessages :
                              is_open' = ReceiveOn(is_open, key, m)
                         /\ last' = [last EXCEPT
                                       !.sd_io = @ \cup {"receive_message"},
                                       !.sd_closed = @ \/ ~is_open[key],
                                       !.sd_unconnected = @ \/ ~conn[p]]
                    ELSE UNCHANGED <<is_open, last>>
                 /\ drain' = [drain EXCEPT
                                !.slot = @ + 1,
                                !.all_closed = @ /\ ~is_open'[key]]
              \/ /\ drain.in_loop
                 /\ drain.slot = len
                 /\ IF drain.all_closed
                    THEN drain' = done
                    ELSE drain' = [drain EXCEPT !.all_closed = TRUE,
                                                !.slot = 0]
                 /\ UNCHANGED <<is_open, last>>
    /\ UNCHANGED <<pc, conn, overlay, first_run_, f_init_cache_,
                   is_shut_down_, do_reuse, apply_overlay, todo, calls,
                   n_comm_shutdown, n_deregister, closes, hist>>
    /\ UNCHANGED profiler_vars

\* shutdown_(): communicator_.shutdown()
communicator_shutdown ==
    /\ pc = "comm_shutdown"
    /\ n_comm_shutdown' = Bump(n_comm_shutdown)
    /\ last' = [last EXCEPT !.sd_io = @ \cup {"communicator_shutdown"}]
    /\ pc' = After(pc, last.pend)
    /\ UNCHANGED <<conn, is_open, overlay, first_run_, f_init_cache_,
                   is_shut_down_, do_reuse, apply_overlay, todo, drain,
                   calls, n_deregister, closes, hist>>
    /\ UNCHANGED profiler_vars

\* deregister_(): manager_.deregister_instance(instance_name_)
deregister_ ==
    /\ pc = "deregister"
    /\ n_deregister' = Bump(n_deregister)
    /\ last' = [last EXCEPT !.sd_io = @ \cup {"deregister_instance"}]
    /\ pc' = After(pc, last.pend)
    /\ UNCHANGED <<conn, is_open, overlay, first_run_, f_init_cache_,
                   is_shut_down_, do_reuse, apply_overlay, todo, drain,
                   calls, n_comm_shutdown, closes, hist>>
    /\ UNCHANGED profiler_vars

\* shutdown_(): is_shut_down_ = true, and back to the caller, which throws
\* or exits.
shutdown_mark ==
    /\ pc = "mark"
    /\ is_shut_down_' = TRUE
    /\ last' = [last EXCEPT !.outcome = last.pend]
    /\ pc' = After(pc, last.pend)
    /\ UNCHANGED <<conn, is_open, overlay, first_run_, f_init_cache_,
                   do_reuse, apply_overlay, todo, drain, calls,
                   n_comm_shutdown, n_deregister, closes, hist>>
    /\ UNCHANGED profiler_vars

(* ---------------------------- reuse_instance --------------------------- *)

\* receive_settings_(): Message default_message(0.0, Settings(), Settings())
DefaultSettingsMessage == Msg("settings", 0, EmptySettings, TRUE, EmptySettings)

\* receive_settings_(): the overlay built from a Settings message: the
\* message's settings with the payload's entries written over them.
ReceivedOverlay(m) == Layer(m.set, m.sval)

\* pre_receive_f_init_(): the receives it makes, in order: per connected
\* F_INIT port one receive if it is scalar, and if it is a vector one on
\* slot 0 followed by one on each slot from 0 to length - 1.
RECURSIVE SlotRun(_, _, _)
SlotRun(p, from, len) ==
    IF from >= len THEN <<>>
    ELSE <<Ref(p, from)>> \o SlotRun(p, from + 1, len)

PortReceives(p) ==
    IF ~conn[p] THEN <<>>
    ELSE IF ~PortTable[p].vector THEN <<Ref(p, NoSlot)>>
    ELSE <<Ref(p, 0)>> \o SlotRun(p, 0, PortTable[p].length)

RECURSIVE PreReceiveSchedule(_)
PreReceiveSchedule(ports) ==
    IF ports = <<>> THEN <<>>
    ELSE PortReceives(Head(ports)) \o PreReceiveSchedule(Tail(ports))

\* apply_overlay_(message): the overlay afterwards.
apply_overlay_(ov, m) ==
    IF ov = EmptySettings /\ has_settings(m) THEN m.set ELSE ov

\* check_compatibility_(port_name, overlay): TRUE iff it returns normally.
check_compatibility_always(ov, m) == TRUE

check_compatibility_(ov, m) ==
    IF ~has_settings(m) THEN TRUE ELSE ov = m.set

\* f_init_cache_.emplace(port_ref, msg): inserts unless the key is present.
emplace(cache, key, m) ==
    IF cache[key] = NoMsg THEN [cache EXCEPT ![key] = m] ELSE cache

\* f_init_cache_.clear()
clear_nothing(cache) == cache

clear(cache) == [k \in CacheKeys |-> NoMsg]

\* The keys of the cache that hold a message.
Cached(cache) == {k \in CacheKeys : cache[k] # NoMsg}

\* reuse_instance(apply_overlay), up to the first receive of
\* pre_receive_f_init_: receive_settings_() and f_init_cache_.clear().
reuse_instance ==
    /\ pc = "idle"
    /\ \E a \in BOOLEAN :
       \E m \in (IF conn[SettingsIn] THEN SettingsInMessages
                 ELSE {DefaultSettingsMessage}) :
          LET rec == [Op("reuse_instance", SettingsIn, NoSlot) EXCEPT
                         !.recv = m, !.io = {"receive_message"},
                         !.settings_close = is_close_port(m)]
          IN  /\ apply_overlay' = a
              /\ IF ~is_close_port(m) /\ m.kind # "settings"
                 THEN /\ shutdown_(rec, "logic_error", "not_settings")
                      /\ hist' = Failed(hist)
                      /\ UNCHANGED <<overlay, do_reuse, f_init_cache_, todo>>
                 ELSE /\ overlay' = IF is_close_port(m) THEN overlay
                                    ELSE ReceivedOverlay(m)
                      /\ do_reuse' = ~is_close_port(m)
                      /\ f_init_cache_' = clear(f_init_cache_)
                      /\ todo' = PreReceiveSchedule(ListPorts("F_INIT"))
                      /\ hist' = [hist EXCEPT
                                    !.delivered = {},
                                    !.stale = Cached(f_init_cache_'),
                                    !.applied =
                                        @ /\ Cached(f_init_cache_') # {}]
                      /\ last' = [rec EXCEPT
                                    !.outcome = "running",
                                    !.discarded =
                                        Cached(f_init_cache_) # {}]
                      /\ pc' = "pre_receive"
    /\ UNCHANGED <<conn, is_open, first_run_, is_shut_down_, drain, calls,
                   n_comm_shutdown, n_deregister, closes>>
    /\ UNCHANGED profiler_vars

\* pre_receive_(port_name, slot, apply_overlay): one call, for the next
\* receive of pre_receive_f_init_.
pre_receive_ ==
    /\ pc = "pre_receive"
    /\ todo # <<>>
    /\ \E m \in PeerMessages :
          LET key == Head(todo)
              ov == IF apply_overlay THEN apply_overlay_(overlay, m)
                    ELSE overlay
              rec == [last EXCEPT !.io = @ \cup {"receive_message"},
                                  !.pre_close = @ \/ is_close_port(m)]
              Stored(msg) == IF apply_overlay THEN unset_settings(msg)
                             ELSE msg
              PreReceived(msg) ==
                  [key |-> key, msg |-> Stored(msg),
                   carried |-> Carried(msg)]
          IN  /\ is_open' = ReceiveOn(is_open, key, m)
              /\ overlay' = ov
              /\ IF apply_overlay /\ ~check_compatibility_(ov, m)
                 THEN /\ shutdown_(rec, "logic_error", "universe")
                      /\ hist' = Failed(hist)
                      /\ todo' = <<>>
                      /\ UNCHANGED f_init_cache_
                 ELSE /\ f_init_cache_' =
                            emplace(f_init_cache_, key, Stored(m))
                      /\ hist' = [hist EXCEPT !.applied = apply_overlay]
                      /\ todo' = Tail(todo)
                      /\ last' = [rec EXCEPT
                                    !.prerecv =
                                        Append(@, PreReceived(m))]
                      /\ pc' = pc
    /\ UNCHANGED <<conn, first_run_, is_shut_down_, do_reuse, apply_overlay,
                   drain, calls, n_comm_shutdown, n_deregister, closes>>
    /\ UNCHANGED profiler_vars

\* reuse_instance(): the decision after pre_receive_f_init_ returned.
f_init_not_connected == \A p \in Range(ListPorts("F_INIT")) : ~conn[p]

no_settings_in == ~conn[SettingsIn]

ReuseDecision_no_first_run ==
    do_reuse /\ \A k \in CacheKeys : ~is_close_port(f_init_cache_[k])

ReuseDecision ==
    IF f_init_not_connected /\ no_settings_in
    THEN first_run_
    ELSE do_reuse /\ \A k \in CacheKeys : ~is_close_port(f_init_cache_[k])

reuse_instance_return ==
    /\ pc = "pre_receive"
    /\ todo = <<>>
    /\ first_run_' = IF f_init_not_connected /\ no_settings_in
                     THEN FALSE ELSE first_run_
    /\ last' = [last EXCEPT
                  !.outcome = IF ReuseDecision THEN "true" ELSE "false"]
    /\ hist' = [hist EXCEPT !.reuse_calls = Bump(@),
                            !.ended = @ \/ ~ReuseDecision]
    /\ pc' = "returned"
    /\ UNCHANGED <<conn, is_open, overlay, f_init_cache_, is_shut_down_,
                   do_reuse, apply_overlay, todo, drain, calls,
                   n_comm_shutdown, n_deregister, closes>>
    /\ UNCHANGED profiler_vars

(* -------------------------------- send --------------------------------- *)

\* send(): the message handed to communicator_.send_message.
SentMessage_as_given(message) == message

SentMessage(message) ==
    IF ~has_settings(message) THEN set_settings(message, overlay)
    ELSE message

\* send(port_name, message) and send(port_name, message, slot)
send ==
    /\ pc = "idle"
    /\ \E p \in PortNames \cup {UnknownPort} :
       \E slot \in (IF port_exists(p) THEN SlotsOf(p) ELSE {NoSlot}) :
       \E message \in UserMessages :
          LET rec == [Op("send", p, slot) EXCEPT
                         !.arg = message, !.arg_after = message]
          IN  IF ~port_exists(p)
              THEN /\ shutdown_(rec, "logic_error", "unknown_port")
                   /\ hist' = Failed(hist)
              ELSE /\ last' = [rec EXCEPT
                                 !.sent = SentMessage(message),
                                 !.io = {"send_message"},
                                 !.outcome = "ok"]
                   /\ pc' = "returned"
                   /\ hist' = hist
    /\ UNCHANGED <<conn, is_open, overlay, first_run_, f_init_cache_,
                   is_shut_down_, do_reuse, apply_overlay, todo, drain,
                   calls, n_comm_shutdown, n_deregister, closes>>
    /\ UNCHANGED profiler_vars

(* ------------------------------- receive ------------------------------- *)

\* The with_settings argument each overload of receive and of
\* receive_with_settings passes to receive_message_.
WithSettingsArg(api, has_slot, has_default) ==
    IF api = "receive" THEN FALSE
    ELSE IF has_slot /\ ~has_default THEN FALSE
    ELSE TRUE

\* receive_message_(): `auto port = communicator_.get_port(port_name)` is a
\* copy of the Port made before communicator_.receive_message is called, so
\* port.is_open(slot) afterwards reads the state the copy was made in.
PortCopyIsOpen(open_at_copy, open_now) == open_at_copy

\* f_init_cache_.erase(port_ref)
erase_nothing(cache, key) == cache

erase(cache, key) == [cache EXCEPT ![key] = NoMsg]

\* receive_message_(), on a cache miss: if (port.is_connected())
MissOnConnected_always(p) == TRUE

MissOnConnected(p) == conn[p]

\* receive_message_(): if (with_settings && !msg.has_settings())
SettingsGone_never(with_settings, msg) == FALSE

SettingsGone(with_settings, msg) == with_settings /\ ~has_settings(msg)

\* receive_message_(), the F_INIT branch.
ReceiveFInit(rec, p, slot, has_default, default_msg, with_settings) ==
    LET key == Ref(p, slot)
        hit == key \in CacheKeys /\ f_init_cache_[key] # NoMsg
        msg == f_init_cache_[key]
    IN  IF hit
        THEN /\ f_init_cache_' = erase(f_init_cache_, key)
             /\ IF SettingsGone(with_settings, msg)
                THEN /\ shutdown_([rec EXCEPT !.cached = msg],
                                  "logic_error", "stripped")
                     /\ hist' = [Failed(hist) EXCEPT
                                   !.stale = Cached(f_init_cache_') \cap @,
                                   !.applied =
                                       @ /\ Cached(f_init_cache_') # {}]
                ELSE /\ last' = [rec EXCEPT !.cached = msg, !.ret = msg,
                                            !.outcome = "ok",
                                            !.was_stale = key \in hist.stale]
                     /\ hist' = [hist EXCEPT
                                   !.delivered = @ \cup {key},
                                   !.stale = Cached(f_init_cache_') \cap @,
                                   !.applied =
                                       @ /\ Cached(f_init_cache_') # {}]
                     /\ pc' = "returned"
        ELSE /\ f_init_cache_' = f_init_cache_
             /\ IF MissOnConnected(p)
                THEN /\ shutdown_(rec, "logic_error", "twice")
                     /\ hist' = Failed(hist)
                ELSE IF has_default
                THEN /\ last' = [rec EXCEPT !.ret = default_msg,
                                            !.outcome = "ok"]
                     /\ hist' = hist
                     /\ pc' = "returned"
                ELSE /\ shutdown_(rec, "logic_error", "not_connected")
                     /\ hist' = Failed(hist)

\* receive_message_(), the branch for the other operators, with m the
\* message communicator_.receive_message returned.
ReceiveOther(rec0, p, slot, m, with_settings) ==
    LET key == Ref(p, slot)
        rec == [rec0 EXCEPT !.recv = m, !.io = {"receive_message"},
                            !.open_before = is_open[key]]
    IN  /\ is_open' = IF conn[p] THEN ReceiveOn(is_open, key, m) ELSE is_open
        /\ IF conn[p] /\ ~PortCopyIsOpen(is_open[key], is_open'[key])
           THEN /\ shutdown_(rec, "runtime_error", "closed")
                /\ hist' = Failed(hist)
           ELSE IF conn[p] /\ ~with_settings
                   /\ ~check_compatibility_(overlay, m)
           THEN /\ shutdown_(rec, "logic_error", "universe")
                /\ hist' = Failed(hist)
           ELSE /\ last' = [rec EXCEPT
                              !.ret = IF ~with_settings
                                      THEN unset_settings(m) ELSE m,
                              !.outcome = "ok"]
                /\ hist' = hist
                /\ pc' = "returned"

\* The slots a caller may name: none, or a slot of a vector port.
UserSlots == {NoSlot} \cup SlotsOf("init_vec")

\* receive(...) and receive_with_settings(...), every overload, through
\* receive_message_.  On a port that is not F_INIT the Communicator is
\* asked, so there the slot fits the port, and an unconnected port gets a
\* default.
receive_message_ ==
    /\ pc = "idle"
    /\ \E api \in {"receive", "receive_with_settings"} :
       \E p \in InPorts \cup {UnknownPort} :
       \E slot \in UserSlots :
       \E has_default \in BOOLEAN :
       \E default_msg \in UserMessages :
          LET with_settings ==
                  WithSettingsArg(api, slot # NoSlot, has_default)
              rec == [Op(api, p, slot) EXCEPT
                         !.has_default = has_default,
                         !.oper = IF port_exists(p) THEN PortTable[p].oper
                                  ELSE "",
                         !.connected = port_exists(p) /\ conn[p],
                         !.again = Ref(p, slot) \in hist.delivered,
                         !.applied = hist.applied,
                         !.cache_before = f_init_cache_,
                         !.default_msg =
                             IF has_default /\ port_exists(p)
                                /\ PortTable[p].oper = "F_INIT" /\ ~conn[p]
                             THEN default_msg ELSE NoMsg,
                         !.with_settings = with_settings]
          IN  /\ has_default \/ default_msg = Msg("data", 1, {}, FALSE, {})
              /\ port_exists(p) \/ (slot = NoSlot /\ ~has_default)
              /\ IF ~port_exists(p)
                 THEN /\ shutdown_(rec, "logic_error", "unknown_port")
                      /\ hist' = Failed(hist)
                      /\ UNCHANGED <<f_init_cache_, is_open>>
                 ELSE IF PortTable[p].oper = "F_INIT"
                 THEN /\ ReceiveFInit(rec, p, slot, has_default, default_msg,
                                      with_settings)
                      /\ UNCHANGED is_open
                 ELSE /\ slot \in SlotsOf(p)
                      /\ conn[p] \/ has_default
                      /\ \E m \in (IF conn[p] THEN PeerMessages
                                   ELSE {default_msg}) :
                            ReceiveOther(rec, p, slot, m, with_settings)
                      /\ UNCHANGED f_init_cache_
    /\ UNCHANGED <<conn, overlay, first_run_, is_shut_down_, do_reuse,
                   apply_overlay, todo, drain, calls, n_comm_shutdown,
                   n_deregister, closes>>
    /\ UNCHANGED profiler_vars

(* ------------------------ exit_error, destruction ----------------------- *)

\* exit_error(message): shutdown_(); exit(1);
exit_error ==
    /\ pc = "idle"
    /\ shutdown_(Op("exit_error", "", NoSlot), "exit", "exit_error")
    /\ hist' = Failed(hist)
    /\ UNCHANGED <<conn, is_open, overlay, first_run_, f_init_cache_,
                   is_shut_down_, do_reuse, apply_overlay, todo, drain,
                   calls, n_comm_shutdown, n_deregister, closes>>
    /\ UNCHANGED profiler_vars

\* The Instance goes out of scope.  instance.cpp defines no destructor: the
\* members are destroyed and nothing of Instance runs.
destroy ==
    /\ pc = "idle"
    /\ pc' = "destroyed"
    /\ last' = [Op("destroy", "", NoSlot) EXCEPT !.outcome = "ok"]
    /\ UNCHANGED <<conn, is_open, overlay, first_run_, f_init_cache_,
                   is_shut_down_, do_reuse, apply_overlay, todo, drain,
                   calls, n_comm_shutdown, n_deregister, closes, hist>>
    /\ UNCHANGED profiler_vars

\* A public operation has returned or thrown: control is back in the user's
\* code, which may catch the exception and call the instance again.  The
\* locals of the operation are gone.
return_to_caller ==
    /\ pc = "returned"
    /\ pc' = "idle"
    /\ last' = NoOp
    /\ do_reuse' = FALSE
    /\ apply_overlay' = FALSE
    /\ UNCHANGED <<conn, is_open, overlay, first_run_, f_init_cache_,
                   is_shut_down_, todo, drain, calls, n_comm_shutdown,
                   n_deregister, closes, hist>>
    /\ UNCHANGED profiler_vars

(* ------------------------------ Profiler ------------------------------- *)

\* record_event(): the buffer is flushed when it holds this many events.
FlushSize == 100

\* The number of record_event calls the model follows.
MaxRecords == 101

\* The number of set_level calls the model follows.
MaxLevelCalls == 1

\* The levels set_level is called with: "all", and one that is not "all".
Levels == {"all", "none"}

\* A ProfileEvent: the events are told apart by the number of the
\* record_event call that brought them; stop_set is stop_time.is_set().
ProfileEvent(id, stop_set) == [id |-> id, stop_set |-> stop_set]

\* record_event(): if (events_.size() >= 100)
ShouldFlush_above(buf) == Len(buf) > FlushSize

ShouldFlush(buf) == Len(buf) >= FlushSize

\* flush_(), on the buffer buf: a non-empty buffer is submitted in one
\* call and cleared; for an empty buffer nothing is done.
flush_unconditionally(buf) ==
    /\ submitted' = Append(submitted, buf)
    /\ events_' = <<>>

flush_(buf) ==
    IF buf # <<>>
    THEN /\ submitted' = Append(submitted, buf)
         /\ events_' = <<>>
    ELSE /\ submitted' = submitted
         /\ events_' = buf

\* Profiler::set_level(level)
set_level ==
    /\ profiler_pc = "running"
    /\ level_calls < MaxLevelCalls
    /\ \E level \in Levels :
          /\ enabled_' = (level = "all")
          /\ was_disabled' = (was_disabled \/ level # "all")
    /\ level_calls' = level_calls + 1
    /\ UNCHANGED <<events_, submitted, n_recorded, kept, dropped,
                   profiler_pc>>
    /\ UNCHANGED instance_vars

\* Profiler::record_event(event): the stop time is set if the caller left
\* it unset, the event is appended if the profiler is enabled, and the
\* buffer is flushed if it has reached FlushSize.
record_event ==
    /\ profiler_pc = "running"
    /\ n_recorded < MaxRecords
    /\ \E stop_set \in BOOLEAN :
          LET given == ProfileEvent(n_recorded + 1, stop_set)
              event == IF ~given.stop_set
                       THEN [given EXCEPT !.stop_set = TRUE] ELSE given
              buf == IF enabled_ THEN Append(events_, event) ELSE events_
          IN  /\ IF ShouldFlush(buf)
                 THEN flush_(buf)
                 ELSE /\ events_' = buf
                      /\ submitted' = submitted
              /\ kept' = IF enabled_ THEN Append(kept, event) ELSE kept
              /\ dropped' = IF enabled_ THEN dropped
                            ELSE dropped \cup {event}
    /\ n_recorded' = n_recorded + 1
    /\ UNCHANGED <<enabled_, level_calls, was_disabled, profiler_pc>>
    /\ UNCHANGED instance_vars

\* Profiler::shutdown(): flush_().  It is the last call made on a Profiler.
profiler_shutdown ==
    /\ profiler_pc = "running"
    /\ flush_(events_)
    /\ profiler_pc' = "shut"
    /\ UNCHANGED <<enabled_, n_recorded, level_calls, was_disabled, kept,
                   dropped>>
    /\ UNCHANGED instance_vars

(* ---------------------------- Specification ---------------------------- *)

Next ==
    \/ register_
    \/ connect_request_peers
    \/ connect_communicator
    \/ connect_get_settings
    \/ reuse_instance
    \/ pre_receive_
    \/ reuse_instance_return
    \/ send
    \/ receive_message_
    \/ return_to_caller
    \/ exit_error
    \/ destroy
    \/ close_outgoing_ports_
    \/ close_incoming_ports_
    \/ drain_incoming_port_
    \/ drain_incoming_vector_port_
    \/ communicator_shutdown
    \/ deregister_
    \/ shutdown_mark

Spec == Init /\ [][Next]_vars

\* The peer of a receiving (port, slot) sends its ClosePort while the
\* instance drains that slot.
PeerCloses(key) ==
    /\ drain_incoming_port_ \/ drain_incoming_vector_port_
    /\ is_open[key]
    /\ ~is_open'[key]

\* close_incoming_ports_ keeps running once it is called (it is sequential
\* code that nothing pre-empts), and every peer eventually sends ClosePort
\* on each slot it is connected to: a slot of a vector port is received on
\* in turn with the others, so its peer's ClosePort is a step that is
\* possible again and again rather than all the time.
DrainFairness ==
    /\ WF_vars(close_incoming_ports_ \/ drain_incoming_port_
                    \/ drain_incoming_vector_port_)
    /\ \A key \in InKeys : SF_vars(PeerCloses(key))

SpecDrain == Init /\ [][Next]_vars /\ DrainFairness

\* The Profiler on its own.
NextProfiler ==
    \/ set_level
    \/ record_event
    \/ profiler_shutdown

SpecProfiler == Init /\ [][NextProfiler]_vars

(* ------------------------------- Claims -------------------------------- *)

Receives == {"receive", "receive_with_settings"}

\* The operation recorded in last has returned or thrown.
Finished == last.outcome \in {"ok", "true", "false", "logic_error",
                              "runtime_error"}

Returned == last.outcome \in {"true", "false"}

\* The instance has no upstream source to signal reuse.
NoInputs == f_init_not_connected /\ no_settings_in

\* C1: with no F_INIT port and no muscle_settings_in connected,
\* reuse_instance never fails, its first call returns true and every later
\* call returns false.
C1_ReuseExactlyOnce ==
    (last.op = "reuse_instance" /\ NoInputs) =>
        /\ last.err = "none"
        /\ Returned => (last.outcome = "true" <=> hist.reuse_calls = 1)

C1_Witness ==
    /\ last.op = "reuse_instance"
    /\ NoInputs
    /\ last.outcome = "false"
    /\ hist.reuse_calls = 2

\* C2: with an F_INIT port or muscle_settings_in connected, reuse_instance
\* returns true iff muscle_settings_in did not deliver ClosePort and no
\* message pre-received in that call is a ClosePort.
C2_ReuseIffNoClosePort ==
    (last.op = "reuse_instance" /\ ~NoInputs /\ Returned) =>
        (last.outcome = "true" <=>
            (~last.settings_close /\ ~last.pre_close))

\* C3: on a connected F_INIT (port, slot) a receive that finds the cached
\* message removes it from the cache and, unless settings were asked for
\* and are gone, returns it; a receive on a (port, slot) already delivered
\* in this reuse iteration fails with the received-twice logic error; no
\* (port, slot) is delivered twice in one iteration.
C3_FInitReceivedOnce ==
    (last.op \in Receives /\ last.oper = "F_INIT" /\ last.connected) =>
        /\ last.cached # NoMsg =>
              /\ f_init_cache_[Ref(last.port, last.slot)] = NoMsg
              /\ last.outcome = "ok" => last.ret = last.cached
              /\ ~last.with_settings => last.outcome = "ok"
        /\ last.again =>
              /\ last.err = "twice"
              /\ last.outcome \in {"pending", "logic_error"}
              /\ last.ret = NoMsg
        /\ last.outcome = "ok" =>
              /\ ~last.again
              /\ last.cached # NoMsg

C3_Witness ==
    /\ last.op = "receive"
    /\ last.oper = "F_INIT"
    /\ last.connected
    /\ last.again
    /\ last.outcome = "logic_error"
    /\ last.err = "twice"

\* C4: a call of shutdown_ made when is_shut_down_ is already true performs
\* no close_port, no receive_message, no communicator shutdown and no
\* deregister_instance; communicator.shutdown and deregister_instance are
\* each executed at most once.
C4_ShutdownIdempotent ==
    /\ (last.sd_calls = 1 /\ last.shut_before) => last.sd_io = {}
    /\ n_comm_shutdown <= 1
    /\ n_deregister <= 1

C4_Witness ==
    /\ last.sd_calls = 1
    /\ last.shut_before
    /\ last.outcome = "logic_error"
    /\ n_deregister = 1

\* C5: once is_shut_down_ is true, no user operation calls the
\* communicator's send_message, receive_message or close_port, nor the
\* manager.
C5_NoIOAfterShutdown ==
    last.shut_before => (last.io = {} /\ last.sd_io = {})

\* C6: in shutdown_ every ClosePort is sent before the first drain receive,
\* every connected incoming slot is closed before communicator.shutdown,
\* communicator.shutdown precedes deregister_instance, and is_shut_down_
\* becomes true only after deregister_instance.
C6_ShutdownOrder ==
    /\ "receive_message" \in last.sd_io =>
          \A k \in OutKeys : closes[k] >= 1
    /\ n_comm_shutdown >= 1 =>
          \A k \in InKeys : conn[k[1]] => ~is_open[k]
    /\ n_deregister >= 1 => n_comm_shutdown >= 1
    /\ is_shut_down_ => n_deregister >= 1

C6_Witness ==
    /\ is_shut_down_
    /\ last.sd_io = {"close_port", "receive_message",
                     "communicator_shutdown", "deregister_instance"}
    /\ conn["init_vec"]

\* C7: when reuse_instance has returned false and the Instance is destroyed
\* without an error having occurred, shutdown_ has run: the outgoing ports
\* were closed, the communicator shut down and deregister_instance called
\* exactly once.
C7_TerminationDeregisters ==
    (pc = "destroyed" /\ hist.ended /\ ~hist.error) =>
        /\ is_shut_down_
        /\ n_deregister = 1
        /\ n_comm_shutdown = 1
        /\ \A k \in OutKeys : closes[k] = 1

\* C8: the message send hands to communicator.send_message carries
\* settings: the user's own if the message has them, the current overlay
\* otherwise; the payload is the user's, and the user's message is not
\* modified.
C8_SendAttachesSettings ==
    (last.op = "send" /\ last.outcome = "ok") =>
        /\ last.io = {"send_message"}
        /\ has_settings(last.sent)
        /\ last.sent.set = IF has_settings(last.arg) THEN last.arg.set
                           ELSE overlay
        /\ unset_settings(last.sent) = unset_settings(last.arg)
        /\ last.arg_after = last.arg

C8_Witness ==
    /\ last.op = "send"
    /\ last.outcome = "ok"
    /\ ~has_settings(last.arg)
    /\ overlay # EmptySettings
    /\ last.sent.set = overlay

\* C9: every message returned by receive (without with_settings) has no
\* settings attached.
C9_ReceiveStripsSettings ==
    (last.op = "receive" /\ last.outcome = "ok") => ~has_settings(last.ret)

\* The received message carries settings that differ from the overlay the
\* instance had when the receive was made.
Differs == has_settings(last.recv) /\ last.recv.set # last.overlay_before

PlainReceiveOnConnectedS ==
    /\ last.op = "receive"
    /\ last.oper = "S"
    /\ last.connected
    /\ Finished

\* C10 as stated: a receive without with_settings on a connected non-F_INIT
\* port fails with a logic error, after shutdown_, iff the received message
\* carries settings that differ from the overlay, succeeds otherwise, and
\* leaves the overlay unchanged.
C10_AsStated ==
    PlainReceiveOnConnectedS =>
        /\ last.outcome = "logic_error" <=> Differs
        /\ ~Differs => last.outcome = "ok"
        /\ last.outcome = "logic_error" =>
              (is_shut_down_ /\ last.sd_calls = 1)
        /\ overlay = last.overlay_before

\* C10 amended: the same, for a port that was open when the receive was
\* made; on a port that was already closed the receive fails with a
\* runtime error, whatever the message; the overlay is unchanged in every
\* case.
C10_MismatchIffLogicError ==
    PlainReceiveOnConnectedS =>
        /\ last.open_before =>
              /\ last.outcome = "logic_error" <=> Differs
              /\ ~Differs => last.outcome = "ok"
        /\ ~last.open_before => last.outcome = "runtime_error"
        /\ last.outcome \in {"logic_error", "runtime_error"} =>
              (is_shut_down_ /\ last.sd_calls = 1)
        /\ overlay = last.overlay_before

C10_Witness ==
    /\ PlainReceiveOnConnectedS
    /\ last.open_before
    /\ Differs
    /\ last.outcome = "logic_error"
    /\ last.err = "universe"
    /\ ~last.shut_before

\* The overlays carried by the messages the operation in progress has
\* received from peers: those of the pre-receives of reuse_instance, and
\* that of the message a receive got on a connected port that is not
\* F_INIT.
OverlaysReceived ==
    UNION {last.prerecv[i].carried : i \in DOMAIN last.prerecv}
    \cup (IF last.op \in Receives /\ last.connected /\ last.oper # "F_INIT"
          THEN Carried(last.recv) ELSE {})

\* C11: while no error has been raised, the overlay is empty or equal to
\* the overlay carried by every message received from a peer in this reuse
\* iteration, pre-received on F_INIT or received by the user on a connected
\* port.  The overlay is assigned only inside reuse_instance, so it is
\* compared with the messages of each operation while that operation is
\* the one in progress.
C11_OverlayMatchesPeers ==
    ~hist.error =>
        (overlay = EmptySettings
            \/ \A received \in OverlaysReceived : received = overlay)

\* The number of close_port calls made so far.
RECURSIVE SumOver(_, _)
SumOver(f, S) ==
    IF S = {} THEN 0
    ELSE LET k == CHOOSE x \in S : TRUE
         IN  f[k] + SumOver(f, S \ {k})

ClosePortsSent == SumOver(closes, AllKeys)

\* close_outgoing_ports_ has run.
OutgoingClosed ==
    \/ pc \in {"close_incoming", "comm_shutdown", "deregister", "mark"}
    \/ is_shut_down_

\* C12: once close_outgoing_ports_ has run, exactly one ClosePort has been
\* sent on every scalar port and on every slot of every vector port whose
\* operator allows sending, and none on any other port: with the scalar
\* state_out and the vector out_vec of length 3 that is 4 ClosePorts.
\* Before it has run none has been sent.
C12_CloseOutgoing ==
    /\ OutgoingClosed =>
          /\ \A k \in OutKeys : closes[k] = 1
          /\ \A k \in AllKeys \ OutKeys : closes[k] = 0
          /\ ClosePortsSent = 1 + PortTable["out_vec"].length
    /\ ~OutgoingClosed => ClosePortsSent = 0

C12_Witness ==
    /\ pc = "close_incoming"
    /\ closes[Ref("state_out", NoSlot)] = 1
    /\ \A slot \in 0..2 : closes[Ref("out_vec", slot)] = 1
    /\ ClosePortsSent = 4

\* close_incoming_ports_ has returned to shutdown_.
IncomingClosed ==
    pc \in {"comm_shutdown", "deregister", "mark"} \/ is_shut_down_

\* While draining, no receive was made on a slot that was closed already
\* or on a port that is not connected; after close_incoming_ports_ every
\* slot of every connected receiving port is closed.
DrainSafe ==
    /\ ~last.sd_closed
    /\ ~last.sd_unconnected
    /\ IncomingClosed => \A k \in InKeys : conn[k[1]] => ~is_open[k]

CtorCalls == <<"register_instance", "request_peers", "connect",
               "get_settings">>

IsPrefix(s, t) == Len(s) <= Len(t) /\ s = SubSeq(t, 1, Len(s))

\* The constructor has returned.
Constructed ==
    pc \notin {"ctor_register", "ctor_peers", "ctor_connect",
               "ctor_settings"}

\* A send_message, receive_message or close_port has been made.
PeerIO ==
    \/ last.io \cap {"send_message", "receive_message"} # {}
    \/ last.sd_io \cap {"close_port", "receive_message"} # {}
    \/ ClosePortsSent > 0

\* C14: the constructor calls register_instance, request_peers,
\* communicator.connect and get_settings in this order, each exactly once,
\* and no send_message, receive_message or close_port happens before
\* communicator.connect.
C14_ConstructionOrder ==
    /\ IsPrefix(calls, CtorCalls)
    /\ Constructed => calls = CtorCalls
    /\ PeerIO => \E i \in DOMAIN calls : calls[i] = "connect"

C14_Witness ==
    /\ calls = CtorCalls
    /\ last.op = "send"
    /\ last.io = {"send_message"}

\* The events with the numbers from..to, as record_event buffers them.
RECURSIVE EventRun(_, _)
EventRun(from, to) ==
    IF from > to THEN <<>>
    ELSE <<ProfileEvent(from, TRUE)>> \o EventRun(from + 1, to)

\* C15: with the profiler enabled throughout, the first 99 record_event
\* calls submit nothing, the 100th makes exactly one
\* submit_profile_events call carrying all 100 events and leaves the buffer
\* empty, and later events collect in the buffer again; after every
\* record_event the buffer holds fewer than 100 events.
C15_FlushAtHundred ==
    /\ Len(events_) < FlushSize
    /\ (~was_disabled /\ profiler_pc = "running") =>
          /\ n_recorded < FlushSize =>
                /\ submitted = <<>>
                /\ events_ = EventRun(1, n_recorded)
          /\ (n_recorded >= FlushSize /\ n_recorded < 2 * FlushSize) =>
                /\ submitted = <<EventRun(1, FlushSize)>>
                /\ events_ = EventRun(FlushSize + 1, n_recorded)

C15_Witness ==
    /\ ~was_disabled
    /\ profiler_pc = "running"
    /\ n_recorded = FlushSize
    /\ Len(submitted) = 1
    /\ Len(submitted[1]) = FlushSize
    /\ events_ = <<>>

\* The failures of send, receive and reuse_instance: an unknown port, a
\* second receive on a connected F_INIT port, an unconnected F_INIT port
\* without default, settings asked for that were applied already, a
\* payload on muscle_settings_in that is no Settings, a settings mismatch,
\* a closed port.
Failures ==
    {"unknown_port", "twice", "not_connected", "stripped", "not_settings",
     "universe", "closed"}

\* The operation recorded in last has thrown to its caller.
Raised == last.outcome \in {"logic_error", "runtime_error"}

\* C16: when a failure of send, receive or reuse_instance reaches the
\* caller, shutdown_ has been called by the failing operation and has
\* completed: is_shut_down_ is true and deregister_instance has been
\* called.
C16_ShutdownBeforeError ==
    Raised =>
        /\ last.err \in Failures
        /\ last.sd_calls = 1
        /\ is_shut_down_
        /\ n_deregister = 1
        /\ n_comm_shutdown = 1

C16_Witness ==
    /\ last.op = "receive"
    /\ last.outcome = "runtime_error"
    /\ last.err = "closed"
    /\ ~last.shut_before
    /\ "deregister_instance" \in last.sd_io
    /\ is_shut_down_

\* C17: every overload of receive_with_settings calls receive_message_
\* with with_settings = true.
C17_WithSettingsTrue ==
    last.op = "receive_with_settings" => last.with_settings

\* The keys of the pre-receives made by the reuse_instance call in
\* progress, in order.
PreReceivedKeys == [i \in DOMAIN last.prerecv |-> last.prerecv[i].key]

\* The receives pre_receive_f_init_ is to make on the F_INIT ports as they
\* are connected: one per connected scalar port; for a connected vector
\* port one on slot 0 and then one on each slot.
ExpectedPreReceives ==
    (IF conn["init_in"] THEN <<Ref("init_in", NoSlot)>> ELSE <<>>)
    \o (IF conn["init_vec"]
        THEN <<Ref("init_vec", 0)>>
             \o [s \in 1..PortTable["init_vec"].length |->
                    Ref("init_vec", s - 1)]
        ELSE <<>>)

\* The message of the last pre-receive made on key: for a slot of a vector
\* port the one of the pass over the slots.
LastReceivedFor(key) ==
    LET at == {i \in DOMAIN last.prerecv : last.prerecv[i].key = key}
    IN  IF at = {} THEN NoMsg
        ELSE last.prerecv[CHOOSE i \in at : \A j \in at : j <= i].msg

\* C18: when reuse_instance returns, pre_receive_f_init_ has made one
\* receive per connected scalar F_INIT port and, per connected vector
\* F_INIT port, one on slot 0 followed by one on each slot; the cache holds
\* under every key of a connected port the message received for it (for a
\* slot, in the pass over the slots) and nothing for an unconnected port.
C18_CacheHoldsPerSlotPass ==
    (last.op = "reuse_instance" /\ Returned) =>
        /\ PreReceivedKeys = ExpectedPreReceives
        /\ \A key \in CacheKeys :
              f_init_cache_[key] =
                  IF conn[key[1]] THEN LastReceivedFor(key) ELSE NoMsg

\* C19: each reuse_instance call empties the F_INIT cache before it
\* pre-receives: no entry of the cache is older than the latest call that
\* pre-received, no receive returns such an entry, and when reuse_instance
\* returns every entry of the cache is a message pre-received by that call
\* for that key.
C19_CacheClearedOnReuse ==
    /\ hist.stale = {}
    /\ (last.op \in Receives /\ last.cached # NoMsg) => ~last.was_stale
    /\ (last.op = "reuse_instance" /\ Returned) =>
          \A key \in Cached(f_init_cache_) :
              \E i \in DOMAIN last.prerecv :
                  /\ last.prerecv[i].key = key
                  /\ last.prerecv[i].msg = f_init_cache_[key]

C19_Witness ==
    /\ last.op = "reuse_instance"
    /\ Returned
    /\ hist.reuse_calls = 2
    /\ last.discarded
    /\ Cached(f_init_cache_) = {Ref("init_vec", 0), Ref("init_vec", 1)}

\* A receive with with_settings = true on a connected F_INIT port that
\* found a message in the cache.
SettingsReceiveOnFInit ==
    /\ last.op \in Receives
    /\ last.with_settings
    /\ last.oper = "F_INIT"
    /\ last.connected
    /\ last.cached # NoMsg

\* C20: the messages pre-received by reuse_instance(true) are cached
\* without settings; a receive with with_settings = true on a connected
\* F_INIT port whose cached message has no settings calls shutdown_ and
\* fails with a logic error; it returns the cached message, with its
\* settings, only if that message has settings, and then the message was
\* pre-received by reuse_instance(false).
C20_SettingsOnFInit ==
    /\ hist.applied =>
          \A key \in Cached(f_init_cache_) :
              ~has_settings(f_init_cache_[key])
    /\ SettingsReceiveOnFInit =>
          /\ ~has_settings(last.cached) =>
                /\ last.err = "stripped"
                /\ last.sd_calls = 1
                /\ last.outcome \in {"pending", "logic_error"}
                /\ last.outcome = "logic_error" => is_shut_down_
          /\ last.applied => ~has_settings(last.cached)
          /\ last.outcome = "ok" =>
                /\ has_settings(last.cached)
                /\ last.ret = last.cached
                /\ ~last.applied

C20_Witness ==
    /\ SettingsReceiveOnFInit
    /\ last.applied
    /\ last.outcome = "logic_error"
    /\ last.err = "stripped"
    /\ ~last.shut_before
    /\ is_shut_down_

\* A receive, of either kind and with or without slot and default, on an
\* F_INIT port that is not connected.
ReceiveOnUnconnectedFInit ==
    /\ last.op \in Receives
    /\ last.oper = "F_INIT"
    /\ ~last.connected

\* C21: a receive on an F_INIT port that is not connected makes no
\* receive_message call of its own and leaves the cache as it is; with a
\* default it returns the default, without one it calls shutdown_ and
\* fails with the not-connected logic error, never with the
\* received-twice error; in every reuse iteration and on every repetition.
C21_UnconnectedFInit ==
    ReceiveOnUnconnectedFInit =>
        /\ last.io = {}
        /\ f_init_cache_ = last.cache_before
        /\ last.cached = NoMsg
        /\ last.has_default =>
              /\ last.outcome = "ok"
              /\ last.ret = last.default_msg
              /\ last.sd_calls = 0
        /\ ~last.has_default =>
              /\ last.err = "not_connected"
              /\ last.sd_calls = 1
              /\ last.outcome \in {"pending", "logic_error"}
              /\ last.outcome = "logic_error" => is_shut_down_

C21_Witness ==
    /\ ReceiveOnUnconnectedFInit
    /\ last.port = "init_in"
    /\ conn["init_vec"]
    /\ hist.reuse_calls = 2
    /\ last.has_default
    /\ last.outcome = "ok"
    /\ last.ret = last.default_msg
    /\ has_settings(last.ret)

\* The batches submitted so far, one after the other.
RECURSIVE Concatenated(_)
Concatenated(batches) ==
    IF batches = <<>> THEN <<>>
    ELSE Head(batches) \o Concatenated(Tail(batches))

\* C22: the batches submitted so far followed by the buffer are, in
\* order, the events recorded while the profiler was enabled, each once;
\* no event recorded while it was disabled is in the buffer or in a batch;
\* no batch is empty; after shutdown the buffer is empty.
C22_NoEventLostOrDuplicated ==
    LET all == Concatenated(submitted) \o events_
    IN  /\ all = kept
        /\ \A i \in DOMAIN all : \A j \in DOMAIN all :
              all[i] = all[j] => i = j
        /\ \A i \in DOMAIN all : all[i] \notin dropped
        /\ Len(kept) + Cardinality(dropped) = n_recorded
        /\ \A b \in DOMAIN submitted : submitted[b] # <<>>
        /\ profiler_pc = "shut" => events_ = <<>>

C22_Witness ==
    /\ profiler_pc = "shut"
    /\ was_disabled
    /\ n_recorded = MaxRecords
    /\ Len(submitted) = 1
    /\ Len(submitted[1]) = 3
    /\ Cardinality(dropped) = MaxRecords - 3
    /\ events_ = <<>>

====
